---- MODULE Spec2Model ----
(***************************************************************************)
(* Model of the Binsight Bluetooth configuration utility (src/main.py).    *)
(*                                                                         *)
(* The program is one asyncio flow of control: main() scans, lets the user *)
(* pick a device, connects, and then loops in the device menu.  Every      *)
(* `await` on the BLE transport is a suspension point, modelled as a pair  *)
(* of steps: one that issues the call and one in which the transport       *)
(* returns or raises.  The transport (bleak) and the user (input()) are    *)
(* the environment: their results are drawn from small sets.               *)
(***************************************************************************)
EXTENDS Integers, Sequences, FiniteSets, TLC

VARIABLES
    pc,             \* position of the single flow of control
    exc,            \* the exception that ended the program, "none" otherwise
    printed,        \* messages main/scanDevices/connectToClient have printed
    \* scanDevices locals: deviceCount, validDevices, retries (lines 103-105) and
    \* devices, the answer of the latest discover (line 108); calls made so far
    deviceCount, validDevices, retries, discovered, discoverCalls,
    \* main locals (lines 204-209); the text typed at the accepted selection
    \* prompt (line 21); the address of every BleakClient constructed (line 128)
    devices, selectedDevice, typed, clients,
    \* the transport calls that have been issued and have not yet completed
    pending,
    \* connectToClient: loop index, calls made, outcome of each call
    i, connectCalls, connectLog, apiService, wifiService,
    \* the BLE link as the transport sees it (client.is_connected)
    linkUp, disconnectCalled,
    \* deviceMenu local flag (line 180)
    connected,
    \* the provisioning operation being executed and what it did so far
    op, attempt, reads, readLog, writes, lastBytes, out,
    \* the menu entries that led to the operation (lines 153, 168, 187), the
    \* service handle and characteristic of its latest read or write, the
    \* request it built and the bytes it handed to write_gatt_char
    route, target, request, payload

vars == << pc, exc, printed, deviceCount, validDevices, retries, discovered,
           discoverCalls, devices, selectedDevice, i, connectCalls, connectLog, apiService,
           wifiService, linkUp, disconnectCalled, connected, op, attempt,
           reads, readLog, writes, lastBytes, out, typed, clients, pending,
           route, target, request, payload >>

scanVars == << deviceCount, validDevices, retries, discovered, discoverCalls >>
mainVars == << devices, selectedDevice, typed, clients >>
connVars == << i, connectCalls, connectLog, apiService, wifiService >>
opVars   == << op, attempt, reads, readLog, writes, lastBytes, out, route, target,
              request, payload >>

----------------------------------------------------------------------------
(* Bounds of the model *)

\* longest list of devices one discover window reports
MaxDevs == 2

(* Program constants *)

\* scanDevices gives up after this many empty scans (line 106)
MaxScanRetries == 3
\* connectToClient tries this many times (line 129)
ConnectAttempts == 3
\* testAPIKey / getConnectionStatus try this many times (lines 52, 88)
ReadAttempts == 2

----------------------------------------------------------------------------
(* Values *)

\* Python's Optional[str]: <<>> is None, <<s>> is the string s
None == << >>
Some(s) == << s >>

\* BLEDevice: name (Optional[str]) and address
BLEDevice(n, a) == [name |-> n, address |-> a]

\* the devices the transport may report: one without a name, one whose name
\* is the empty string, one with an ordinary name
DeviceUniverse ==
    { BLEDevice(None, "addr0"), BLEDevice(Some(""), "addr1"),
      BLEDevice(Some("DeviceA"), "addr2") }

RECURSIVE SeqsUpTo(_, _)
SeqsUpTo(S, n) ==
    IF n = 0 THEN { << >> }
    ELSE LET shorter == SeqsUpTo(S, n - 1)
         IN  shorter \cup { Append(s, x) : s \in { t \in shorter : Len(t) = n - 1 }, x \in S }

\* what BleakScanner.discover may return in one window
DiscoverResults == SeqsUpTo(DeviceUniverse, MaxDevs)

----------------------------------------------------------------------------
(* scanDevices, lines 99-120 *)

\* mutant of HasName: the name test is dropped, every device is kept
HasName_NoFilter(device) == TRUE

\* line 111: if device.name != None
HasName(device) == device.name # None

\* lines 110-114: the for loop over one discover result, appending to validDevices
RECURSIVE FilterNamed(_)
FilterNamed(devs) ==
    IF devs = << >> THEN << >>
    ELSE IF HasName(Head(devs))
         THEN << Head(devs) >> \o FilterNamed(Tail(devs))
         ELSE FilterNamed(Tail(devs))

\* mutant of ScanLoopRuns: the loop no longer stops at the first find
ScanLoopRuns_IgnoresCount(dc, r) == r < MaxScanRetries

\* mutant of ScanLoopRuns: off by one, a fourth scan after three empty ones
ScanLoopRuns_OneMore(dc, r) == dc <= 0 /\ r <= MaxScanRetries

\* line 106: while deviceCount <= 0 and retries < 3
ScanLoopRuns(dc, r) == dc <= 0 /\ r < MaxScanRetries

\* no read or write has been issued yet; no request has been built yet
NoTarget == [service |-> "none", char |-> "none"]
NoRequest == << >>

\* await: a transport call is outstanding from the moment it is issued until it
\* returns or raises
Issue(p, call) == Append(p, call)

\* mutant of Complete: a call that returned is still counted as outstanding
Complete_NotAwaited(p, call) == p

Complete(p, call) == SelectSeq(p, LAMBDA c : c # call)

Init ==
    /\ pc = "scan_loop"
    /\ exc = "none"
    /\ printed = { "Scanning" }
    /\ deviceCount = 0
    /\ validDevices = << >>
    /\ retries = 0
    /\ discovered = << >>
    /\ discoverCalls = 0
    /\ devices = << >>
    /\ selectedDevice = -1
    /\ i = 0
    /\ connectCalls = 0
    /\ connectLog = << >>
    /\ apiService = "unset"
    /\ wifiService = "unset"
    /\ linkUp = FALSE
    /\ disconnectCalled = FALSE
    /\ connected = FALSE
    /\ op = "none"
    /\ attempt = 0
    /\ reads = 0
    /\ readLog = << >>
    /\ writes = 0
    /\ lastBytes = << >>
    /\ out = << >>
    /\ typed = << >>
    /\ clients = << >>
    /\ pending = << >>
    /\ route = << >>
    /\ target = NoTarget
    /\ request = NoRequest
    /\ payload = << >>

\* line 106 true, line 108: await BleakScanner.discover(timeout=20) is issued
ScanIssue ==
    /\ pc = "scan_loop"
    /\ ScanLoopRuns(deviceCount, retries)
    /\ pc' = "discover_wait"
    /\ discoverCalls' = discoverCalls + 1
    /\ pending' = Issue(pending, "discover")
    /\ UNCHANGED << exc, printed, deviceCount, validDevices, retries, discovered,
                    mainVars, connVars, linkUp, disconnectCalled, connected, opVars >>

\* lines 108-117: discover returns devs; named devices are appended and counted,
\* an empty attempt is counted as a retry
DiscoverReturn ==
    /\ pc = "discover_wait"
    /\ \E devs \in DiscoverResults :
         LET named == FilterNamed(devs)
             count == deviceCount + Len(named)
         IN  /\ discovered' = devs
             /\ validDevices' = validDevices \o named
             /\ deviceCount' = count
             /\ retries' = IF count <= 0 THEN retries + 1 ELSE retries
             /\ printed' = IF count <= 0 THEN printed \cup { "Rescanning" } ELSE printed
    /\ pc' = "scan_loop"
    /\ pending' = Complete(pending, "discover")
    /\ UNCHANGED << exc, discoverCalls, mainVars, connVars, linkUp,
                    disconnectCalled, connected, opVars >>

\* line 108: discover raises (Bluetooth adapter off, ...); nothing catches it
DiscoverRaise ==
    /\ pc = "discover_wait"
    /\ pc' = "crashed"
    /\ exc' = "BleakError"
    /\ pending' = Complete(pending, "discover")
    /\ UNCHANGED << printed, scanVars, mainVars, connVars, linkUp,
                    disconnectCalled, connected, opVars >>

\* line 106 false, lines 119-120 and main lines 204-205, 214-215: scanDevices
\* returns validDevices and its locals go out of scope; main selects a device
\* only from a non-empty list
ScanReturn ==
    /\ pc = "scan_loop"
    /\ ~ScanLoopRuns(deviceCount, retries)
    /\ devices' = validDevices
    /\ IF Len(validDevices) > 0
       THEN /\ pc' = "select"
            /\ printed' = printed
       ELSE /\ pc' = "done"
            /\ printed' = printed \cup { "NoDevicesFound" }
    /\ deviceCount' = 0
    /\ validDevices' = << >>
    /\ retries' = 0
    /\ discovered' = << >>
    /\ UNCHANGED << exc, discoverCalls, selectedDevice, typed, clients, pending,
                    connVars, linkUp, disconnectCalled, connected, opVars >>

----------------------------------------------------------------------------
(* input() and int(): what the user types is a sequence of characters *)

Digits == { "0", "1", "2", "3", "4", "5", "6", "7", "8", "9" }
DigitVal(c) ==
    CASE c = "0" -> 0 [] c = "1" -> 1 [] c = "2" -> 2 [] c = "3" -> 3 [] c = "4" -> 4
      [] c = "5" -> 5 [] c = "6" -> 6 [] c = "7" -> 7 [] c = "8" -> 8 [] c = "9" -> 9

RECURSIVE StripLeft(_)
StripLeft(t) == IF t # << >> /\ Head(t) = " " THEN StripLeft(Tail(t)) ELSE t
RECURSIVE StripRight(_)
StripRight(t) ==
    IF t # << >> /\ t[Len(t)] = " " THEN StripRight(SubSeq(t, 1, Len(t) - 1)) ELSE t

RECURSIVE DigitsValue(_, _)
DigitsValue(t, acc) ==
    IF t = << >> THEN acc ELSE DigitsValue(Tail(t), 10 * acc + DigitVal(Head(t)))

\* int(text): surrounding blanks are ignored, one sign is allowed, at least one
\* digit is needed; anything else raises ValueError (ok = FALSE)
ParseInt(text) ==
    LET t      == StripRight(StripLeft(text))
        signed == t # << >> /\ Head(t) \in { "-", "+" }
        body   == IF signed THEN Tail(t) ELSE t
    IN  IF body # << >> /\ \A k \in 1..Len(body) : body[k] \in Digits
        THEN [ok |-> TRUE,
              val |-> IF signed /\ Head(t) = "-" THEN 0 - DigitsValue(body, 0)
                      ELSE DigitsValue(body, 0)]
        ELSE [ok |-> FALSE, val |-> 0]

\* the lines a user may type at a prompt
UserTexts ==
    { << "0" >>, << "1" >>, << "2" >>, << "3" >>, << "4" >>, << "5" >>,
      << " ", "2" >>, << "-", "1" >>, << "x" >>, << >> }

----------------------------------------------------------------------------
(* selectDevice, lines 15-32 *)

\* main line 206: devices[index]; Python counts a negative index from the end
PyIndex(seq, idx) == IF idx < 0 THEN seq[Len(seq) + idx + 1] ELSE seq[idx + 1]

\* mutant of ValidSelection: the lower bound is off by one, 0 is accepted
ValidSelection_ZeroAccepted(selection, devs) == selection >= 0 /\ selection <= Len(devs)

\* line 26: if selection > 0 and selection <= len(devices)
ValidSelection(selection, devs) == selection > 0 /\ selection <= Len(devs)

\* one turn of the while loop of lines 19-29: a text that is no integer
\* (lines 22-24) or an integer out of range (lines 28-29) prompts again; once a
\* selection is accepted, line 32 and main lines 206-209 (connectToClient is
\* entered, line 128).  The two rejection messages are not recorded.
SelectDevice ==
    /\ pc = "select"
    /\ \E text \in UserTexts :
         LET parsed == ParseInt(text)
         IN  IF parsed.ok /\ ValidSelection(parsed.val, devices)
             THEN /\ selectedDevice' = parsed.val - 1
                  /\ typed' = text
                  /\ clients' = Append(clients, PyIndex(devices, parsed.val - 1).address)
                  /\ pc' = "connect_loop"
             ELSE /\ selectedDevice' = selectedDevice
                  /\ UNCHANGED << typed, clients >>
                  /\ pc' = "select"
    /\ UNCHANGED << exc, printed, scanVars, devices, pending, connVars, linkUp,
                    disconnectCalled, connected, opVars >>

----------------------------------------------------------------------------
(* connectToClient, lines 127-143 *)

\* mutant of ConnectLoopRuns: off by one, a fourth connection attempt
ConnectLoopRuns_OneMore(idx) == idx <= ConnectAttempts

\* line 129: for i in range(3)
ConnectLoopRuns(idx) == idx < ConnectAttempts

\* lines 129-132: the loop body starts and await client.connect() is issued
ConnectIssue ==
    /\ pc = "connect_loop"
    /\ ConnectLoopRuns(i)
    /\ pc' = "connect_wait"
    /\ connectCalls' = connectCalls + 1
    /\ printed' = printed \cup { "Attempting" }
    /\ pending' = Issue(pending, "connect")
    /\ UNCHANGED << exc, scanVars, mainVars, i, connectLog, apiService, wifiService,
                    linkUp, disconnectCalled, connected, opVars >>

\* lines 132-133: connect returns, break
ConnectOk ==
    /\ pc = "connect_wait"
    /\ connectLog' = Append(connectLog, "ok")
    /\ linkUp' = TRUE
    /\ pc' = "resolve"
    /\ pending' = Complete(pending, "connect")
    /\ UNCHANGED << exc, printed, scanVars, mainVars, i, connectCalls, apiService,
                    wifiService, disconnectCalled, connected, opVars >>

\* lines 134-135: connect raises, the failure is printed and the loop goes on
ConnectFail ==
    /\ pc = "connect_wait"
    /\ connectLog' = Append(connectLog, "fail")
    /\ printed' = printed \cup { "ConnectionFailed" }
    /\ i' = i + 1
    /\ pc' = "connect_loop"
    /\ pending' = Complete(pending, "connect")
    /\ UNCHANGED << exc, scanVars, mainVars, connectCalls, apiService, wifiService,
                    linkUp, disconnectCalled, connected, opVars >>

\* line 129: range(3) is exhausted, the loop ends without a break
ConnectExhausted ==
    /\ pc = "connect_loop"
    /\ ~ConnectLoopRuns(i)
    /\ pc' = "resolve"
    /\ UNCHANGED << exc, printed, scanVars, mainVars, pending, connVars, linkUp,
                    disconnectCalled, connected, opVars >>

\* whether the client has performed service discovery (a connect succeeded)
ServicesDiscovered(log) == \E k \in 1..Len(log) : log[k] = "ok"

\* lines 136-143: "Connected to ..." is printed whatever the loop's outcome, the
\* two services are looked up once, and the triple is returned.  On a client
\* that has discovered services, get_service returns the service, or None when
\* the peripheral has none with that UUID.  On a client that never connected,
\* client.services holds nothing to look up: depending on the bleak release it
\* is an empty collection (both lookups return None) or the property raises
\* BleakError; connectToClient catches nothing there.
ResolveServices ==
    /\ pc = "resolve"
    /\ printed' = printed \cup { "Connected" }
    /\ IF ServicesDiscovered(connectLog)
       THEN /\ apiService' \in { "None", "abc0" }
            /\ wifiService' \in { "None", "31415924535897932384626433832790" }
            /\ pc' = "main_check"
            /\ exc' = exc
       ELSE \/ /\ apiService' = "None"
               /\ wifiService' = "None"
               /\ pc' = "main_check"
               /\ exc' = exc
            \/ /\ pc' = "crashed"
               /\ exc' = "BleakError"
               /\ UNCHANGED << apiService, wifiService >>
    /\ UNCHANGED << scanVars, mainVars, pending, i, connectCalls, connectLog, linkUp,
                    disconnectCalled, connected, opVars >>

\* mutant of EntersDeviceMenu: the device menu is entered whatever the client says
EntersDeviceMenu_Always(up) == TRUE

\* main line 210: if(client.is_connected)
EntersDeviceMenu(up) == up

\* main lines 210-213: if(client.is_connected) deviceMenu (line 180) else print
MainCheck ==
    /\ pc = "main_check"
    /\ IF EntersDeviceMenu(linkUp)
       THEN /\ pc' = "menu"
            /\ connected' = TRUE
            /\ printed' = printed
       ELSE /\ pc' = "done"
            /\ connected' = connected
            /\ printed' = printed \cup { "UnableToConnect" }
    /\ UNCHANGED << exc, scanVars, mainVars, pending, connVars, linkUp,
                    disconnectCalled, opVars >>

----------------------------------------------------------------------------
(* bytes.decode('utf-8') and the values a characteristic may hold *)

IsCont(x) == x >= 128 /\ x <= 191

\* strict UTF-8 decoding of a byte sequence into code points; an ill-formed
\* sequence raises UnicodeDecodeError (ok = FALSE)
RECURSIVE Utf8Decode(_)
Utf8Decode(b) ==
    IF b = << >> THEN [ok |-> TRUE, text |-> << >>]
    ELSE LET b0   == b[1]
             n    == Len(b)
             need == CASE b0 < 128 -> 1
                       [] b0 >= 194 /\ b0 <= 223 -> 2
                       [] b0 >= 224 /\ b0 <= 239 -> 3
                       [] b0 >= 240 /\ b0 <= 244 -> 4
                       [] OTHER -> 0
             wellFormed ==
                 /\ need > 0
                 /\ n >= need
                 /\ \A k \in 2..need : IsCont(b[k])
                 /\ (b0 = 224 => b[2] >= 160)
                 /\ (b0 = 237 => b[2] <= 159)
                 /\ (b0 = 240 => b[2] >= 144)
                 /\ (b0 = 244 => b[2] <= 143)
             cp   == CASE need = 1 -> b0
                       [] need = 2 -> (b0 - 192) * 64 + (b[2] - 128)
                       [] need = 3 -> (b0 - 224) * 4096 + (b[2] - 128) * 64 + (b[3] - 128)
                       [] need = 4 -> (b0 - 240) * 262144 + (b[2] - 128) * 4096
                                      + (b[3] - 128) * 64 + (b[4] - 128)
             rest == Utf8Decode(SubSeq(b, need + 1, n))
         IN  IF ~wellFormed THEN [ok |-> FALSE, text |-> << >>]
             ELSE IF rest.ok THEN [ok |-> TRUE, text |-> << cp >> \o rest.text]
             ELSE rest

\* the string "True" as code points
TrueStr == << 84, 114, 117, 101 >>

\* what read_gatt_char may return: "True", "true", "1", "False", "", "True\n",
\* "é" (two bytes), and two ill-formed values: a lone 0xFF and "True" followed
\* by a truncated two-byte sequence
ReadValues ==
    { << 84, 114, 117, 101 >>, << 116, 114, 117, 101 >>, << 49 >>,
      << 70, 97, 108, 115, 101 >>, << >>, << 84, 114, 117, 101, 10 >>,
      << 195, 169 >>, << 255 >>, << 84, 114, 117, 101, 195 >> }

----------------------------------------------------------------------------
(* the request dictionaries and json.dumps(request).encode('utf-8'):
   lines 42-46, 68-72, 79-82.  A str is its sequence of code points. *)

\* the dictionary keys: "apiKey", "endpoint", "port", "ssid", "password"
ApiKeyKey   == << 97, 112, 105, 75, 101, 121 >>
EndpointKey == << 101, 110, 100, 112, 111, 105, 110, 116 >>
PortKey     == << 112, 111, 114, 116 >>
SsidKey     == << 115, 115, 105, 100 >>
PasswordKey == << 112, 97, 115, 115, 119, 111, 114, 100 >>

\* dictionary values: what input() returned (a str) or what int() made of it
StrVal(s) == [kind |-> "str", s |-> s, n |-> 0]
IntVal(n) == [kind |-> "int", s |-> << >>, n |-> n]
Item(k, v) == [key |-> k, val |-> v]

\* mutant of RequestOf: the port is left out of the SetAPIKey request
RequestOf_NoPort(o, a, b, n) ==
    CASE o = "SetAPIKey" -> << Item(ApiKeyKey, StrVal(a)), Item(EndpointKey, StrVal(b)) >>
      [] o = "SetWiFi"   -> << Item(SsidKey, StrVal(a)), Item(PasswordKey, StrVal(b)) >>
      [] o = "UnsetWiFi" -> << Item(SsidKey, StrVal(a)) >>

\* lines 42-44, 68-71, 79-81: the dictionary of each write operation, its
\* items in insertion order
RequestOf(o, a, b, n) ==
    CASE o = "SetAPIKey" -> << Item(ApiKeyKey, StrVal(a)), Item(EndpointKey, StrVal(b)),
                               Item(PortKey, IntVal(n)) >>
      [] o = "SetWiFi"   -> << Item(SsidKey, StrVal(a)), Item(PasswordKey, StrVal(b)) >>
      [] o = "UnsetWiFi" -> << Item(SsidKey, StrVal(a)) >>

\* a hexadecimal digit in lower case
HexDigit(d) == IF d < 10 THEN 48 + d ELSE 87 + d

\* \uXXXX
UEscape(c) ==
    << 92, 117, HexDigit(c \div 4096), HexDigit((c \div 256) % 16),
       HexDigit((c \div 16) % 16), HexDigit(c % 16) >>

\* mutant of EscapeChar: characters are copied as they are
EscapeChar_Raw(c) == << c >>

\* json.dumps, ensure_ascii: the quote, the backslash and the control
\* characters get their escape, printable ASCII is copied, anything else
\* becomes \uXXXX (a surrogate pair above the basic plane)
EscapeChar(c) ==
    CASE c = 34 -> << 92, 34 >>
      [] c = 92 -> << 92, 92 >>
      [] c = 10 -> << 92, 110 >>
      [] c = 13 -> << 92, 114 >>
      [] c = 9  -> << 92, 116 >>
      [] c = 12 -> << 92, 102 >>
      [] c = 8  -> << 92, 98 >>
      [] c >= 32 /\ c <= 126 /\ c # 34 /\ c # 92 -> << c >>
      [] (c < 32 \/ c > 126) /\ c < 65536 /\ c \notin { 8, 9, 10, 12, 13 } -> UEscape(c)
      [] c >= 65536 ->
            UEscape(55296 + ((c - 65536) \div 1024)) \o UEscape(56320 + ((c - 65536) % 1024))

RECURSIVE EscapeAll(_)
EscapeAll(s) == IF s = << >> THEN << >> ELSE EscapeChar(Head(s)) \o EscapeAll(Tail(s))

JsonString(s) == << 34 >> \o EscapeAll(s) \o << 34 >>

RECURSIVE NatStr(_)
NatStr(n) == IF n < 10 THEN << 48 + n >> ELSE NatStr(n \div 10) \o << 48 + (n % 10) >>

\* an int is written in decimal, with its sign
IntStr(n) == IF n < 0 THEN << 45 >> \o NatStr(0 - n) ELSE NatStr(n)

JsonValue(v) == IF v.kind = "str" THEN JsonString(v.s) ELSE IntStr(v.n)

\* the items, separated by ", ", each as key ": " value
RECURSIVE JsonItems(_)
JsonItems(req) ==
    IF req = << >> THEN << >>
    ELSE JsonString(Head(req).key) \o << 58, 32 >> \o JsonValue(Head(req).val)
         \o (IF Tail(req) # << >> THEN << 44, 32 >> ELSE << >>)
         \o JsonItems(Tail(req))

\* json.dumps(request)
JsonDumps(req) == << 123 >> \o JsonItems(req) \o << 125 >>

\* str.encode('utf-8')
RECURSIVE Utf8Encode(_)
Utf8Encode(text) ==
    IF text = << >> THEN << >>
    ELSE LET c == Head(text)
             b == CASE c < 128   -> << c >>
                    [] c >= 128 /\ c < 2048 -> << 192 + (c \div 64), 128 + (c % 64) >>
                    [] c >= 2048 /\ c < 65536 ->
                          << 224 + (c \div 4096), 128 + ((c \div 64) % 64), 128 + (c % 64) >>
                    [] c >= 65536 ->
                          << 240 + (c \div 262144), 128 + ((c \div 4096) % 64),
                             128 + ((c \div 64) % 64), 128 + (c % 64) >>
         IN  b \o Utf8Encode(Tail(text))

\* lines 46, 72, 82: json.dumps(request).encode('utf-8')
Payload(req) == Utf8Encode(JsonDumps(req))

\* what the user may type for a key, an endpoint, an ssid or a password: "k",
\* "e", and a text of a quote, a backslash, a tab, an e with acute accent and
\* a character outside the basic plane
TextInputs == { << 107 >>, << 101 >>, << 34, 92, 9, 233, 128512 >> }

\* what the user may type for the port: "8080", "-1", " 7", "x"
PortTexts == { << "8", "0", "8", "0" >>, << "-", "1" >>, << " ", "7" >>, << "x" >> }

----------------------------------------------------------------------------
(* deviceMenu, wiFiOptions, apiOptions: lines 148-196 *)

MenuPhase ==
    { "menu", "wifi_menu", "api_menu", "write_op", "write_wait", "read_loop",
      "read_wait", "disconnect_wait" }

WriteOps == { "SetAPIKey", "SetWiFi", "UnsetWiFi" }
ReadOps  == { "TestAPIKey", "GetConnectionStatus" }

\* mutant of ServiceOf: apiOptions and wiFiOptions are handed each other's handle
ServiceOf_Swapped(o) == IF o \in { "SetAPIKey", "TestAPIKey" } THEN wifiService ELSE apiService

\* mutant of CharacteristicOf: connectToWiFi writes to the status characteristic
CharacteristicOf_WrongWiFi(o) ==
    CASE o \in { "SetAPIKey", "TestAPIKey" } -> "abc1"
      [] o \in { "GetConnectionStatus", "SetWiFi" } -> "31415924535897932384626433832791"
      [] o = "UnsetWiFi" -> "31415924535897932384626433832794"

\* the characteristic each operation looks up on its handle (lines 46, 54, 71,
\* 81, 90)
CharacteristicOf(o) ==
    CASE o \in { "SetAPIKey", "TestAPIKey" } -> "abc1"
      [] o = "GetConnectionStatus" -> "31415924535897932384626433832791"
      [] o = "SetWiFi" -> "31415924535897932384626433832792"
      [] o = "UnsetWiFi" -> "31415924535897932384626433832794"

\* the service handle each operation is given (lines 155, 157, 170, 172, 174)
ServiceOf(o) == IF o \in { "SetAPIKey", "TestAPIKey" } THEN apiService ELSE wifiService

\* the peripheral goes out of range or resets: the transport drops the link
\* while the program sits at a prompt or waits on the transport
LinkDrop ==
    /\ pc \in MenuPhase
    /\ linkUp
    /\ linkUp' = FALSE
    /\ UNCHANGED << pc, exc, printed, scanVars, mainVars, pending, connVars,
                    disconnectCalled, connected, opVars >>

\* a provisioning operation starts with a clean record
StartOp(o) ==
    /\ op' = o
    /\ attempt' = 0
    /\ reads' = 0
    /\ readLog' = << >>
    /\ writes' = 0
    /\ lastBytes' = << >>
    /\ out' = << >>
    /\ target' = NoTarget
    /\ request' = NoRequest
    /\ payload' = << >>

\* int(input(...)) raises ValueError; no caller catches it
Crash(e) ==
    /\ pc' = "crashed"
    /\ exc' = e

\* lines 181-196: one turn of the while loop, up to the call it makes
MenuChoice ==
    /\ pc = "menu"
    /\ connected
    /\ \E text \in UserTexts :
         LET parsed == ParseInt(text)
         IN  IF ~parsed.ok
             THEN Crash("ValueError") /\ UNCHANGED << disconnectCalled, pending, opVars >>
             ELSE /\ exc' = exc
                  /\ CASE parsed.val = 1 ->
                            pc' = "wifi_menu" /\ StartOp("none") /\ route' = << 1 >>
                            /\ UNCHANGED << disconnectCalled, pending >>
                       [] parsed.val = 2 ->
                            pc' = "api_menu" /\ StartOp("none") /\ route' = << 2 >>
                            /\ UNCHANGED << disconnectCalled, pending >>
                       [] parsed.val = 4 ->
                            pc' = "disconnect_wait" /\ disconnectCalled' = TRUE
                            /\ pending' = Issue(pending, "disconnect")
                            /\ UNCHANGED opVars
                       [] OTHER ->
                            pc' = "menu" /\ UNCHANGED << disconnectCalled, pending, opVars >>
    /\ UNCHANGED << printed, scanVars, mainVars, connVars, linkUp, connected >>

\* lines 195-196: disconnect returns, connected = False ends the loop and main
DisconnectReturn ==
    /\ pc = "disconnect_wait"
    /\ linkUp' = FALSE
    /\ connected' = FALSE
    /\ pc' = "done"
    /\ pending' = Complete(pending, "disconnect")
    /\ UNCHANGED << exc, printed, scanVars, mainVars, connVars, disconnectCalled,
                    opVars >>

\* lines 168-174
WifiChoice ==
    /\ pc = "wifi_menu"
    /\ \E text \in UserTexts :
         LET parsed == ParseInt(text)
         IN  IF ~parsed.ok
             THEN Crash("ValueError") /\ UNCHANGED opVars
             ELSE /\ exc' = exc
                  /\ CASE parsed.val = 1 ->
                            pc' = "write_op" /\ StartOp("SetWiFi")
                            /\ route' = Append(route, 1)
                       [] parsed.val = 2 ->
                            pc' = "read_loop" /\ StartOp("GetConnectionStatus")
                            /\ route' = Append(route, 2)
                       [] parsed.val = 3 ->
                            pc' = "write_op" /\ StartOp("UnsetWiFi")
                            /\ route' = Append(route, 3)
                       [] OTHER -> pc' = "menu" /\ UNCHANGED opVars
    /\ UNCHANGED << printed, scanVars, mainVars, pending, connVars, linkUp,
                    disconnectCalled, connected >>

\* lines 153-157
ApiChoice ==
    /\ pc = "api_menu"
    /\ \E text \in UserTexts :
         LET parsed == ParseInt(text)
         IN  IF ~parsed.ok
             THEN Crash("ValueError") /\ UNCHANGED opVars
             ELSE /\ exc' = exc
                  /\ CASE parsed.val = 1 ->
                            pc' = "write_op" /\ StartOp("SetAPIKey")
                            /\ route' = Append(route, 1)
                       [] parsed.val = 2 ->
                            pc' = "read_loop" /\ StartOp("TestAPIKey")
                            /\ route' = Append(route, 2)
                       [] OTHER -> pc' = "menu" /\ UNCHANGED opVars
    /\ UNCHANGED << printed, scanVars, mainVars, pending, connVars, linkUp,
                    disconnectCalled, connected >>

----------------------------------------------------------------------------
(* write operations: addAPIKey 37-46, connectToWiFi 66-72, disconnectWiFi 77-82 *)

\* mutant of AfterWrite: a failed write is tried again, as the reads are
AfterWrite_Retry(ok) == IF ok THEN "menu" ELSE "write_op"

\* where a write operation goes when the awaited write returns (ok) or raises:
\* no try surrounds write_gatt_char, so a failure leaves the function at once
AfterWrite(ok) == IF ok THEN "menu" ELSE "crashed"

\* lines 72, 82: print("Command sent!"); addAPIKey prints nothing
PrintsCommandSent(o) == o \in { "SetWiFi", "UnsetWiFi" }

\* the prompts are answered and the write is issued.  addAPIKey converts the
\* port with int() (line 40), which raises ValueError on a text that is no
\* integer; <service>.get_characteristic on a None handle raises AttributeError
\* before anything reaches the transport (lines 46, 71, 81).
WriteIssue ==
    /\ pc = "write_op"
    /\ \E a \in TextInputs, b \in TextInputs, portText \in PortTexts :
         LET parsed == ParseInt(portText)
             req    == RequestOf(op, a, b, parsed.val)
         IN  IF op = "SetAPIKey" /\ ~parsed.ok
             THEN Crash("ValueError")
                  /\ UNCHANGED << writes, target, pending, request, payload >>
             ELSE IF ServiceOf(op) = "None"
             THEN Crash("AttributeError")
                  /\ UNCHANGED << writes, target, pending, request, payload >>
             ELSE /\ pc' = "write_wait"
                  /\ exc' = exc
                  /\ writes' = writes + 1
                  /\ target' = [service |-> ServiceOf(op), char |-> CharacteristicOf(op)]
                  /\ request' = req
                  /\ payload' = Payload(req)
                  /\ pending' = Issue(pending, "write")
    /\ UNCHANGED << printed, scanVars, mainVars, connVars, linkUp, disconnectCalled,
                    connected, op, attempt, reads, readLog, lastBytes, out, route >>

\* the write completes: only on a link that is up
WriteOk ==
    /\ pc = "write_wait"
    /\ linkUp
    /\ pc' = AfterWrite(TRUE)
    /\ out' = IF PrintsCommandSent(op) THEN Append(out, "CommandSent") ELSE out
    /\ pending' = Complete(pending, "write")
    /\ request' = NoRequest
    /\ payload' = << >>
    /\ UNCHANGED << exc, printed, scanVars, mainVars, connVars, linkUp,
                    disconnectCalled, connected, op, attempt, reads, readLog, writes,
                    lastBytes, route, target >>

\* the write raises (link down, or a transport error on a link that is up)
WriteRaise ==
    /\ pc = "write_wait"
    /\ pc' = AfterWrite(FALSE)
    /\ exc' = IF pc' = "crashed" THEN "BleakError" ELSE exc
    /\ pending' = Complete(pending, "write")
    /\ request' = NoRequest
    /\ payload' = << >>
    /\ UNCHANGED << printed, scanVars, mainVars, connVars, linkUp, disconnectCalled,
                    connected, op, attempt, reads, readLog, writes, lastBytes, out,
                    route, target >>

----------------------------------------------------------------------------
(* read operations: testAPIKey 51-61, getConnectionStatus 87-94 *)

\* mutant of ReadLoopRuns: off by one, a third read attempt
ReadLoopRuns_OneMore(a) == a <= ReadAttempts

\* lines 52, 88: for _ in range(2)
ReadLoopRuns(a) == a < ReadAttempts

\* mutant of ReadHandlerCatches: only the transport's error is caught
ReadHandlerCatches_TransportOnly(e) == e = "BleakError"

\* lines 60, 93: except Exception catches whatever the attempt raised
ReadHandlerCatches(e) == e \in { "AttributeError", "BleakError", "UnicodeDecodeError" }

\* mutant of IsApiSuccess: the comparison ignores case
IsApiSuccess_AnyCase(result) == result \in { TrueStr, << 116, 114, 117, 101 >> }

\* line 55: if str(result) == "True"
IsApiSuccess(result) == result = TrueStr

\* lines 60-61, 93-94: a caught exception prints the diagnostic and the loop
\* goes on; an exception the handler does not catch leaves the function
ReadException(e) ==
    IF ReadHandlerCatches(e)
    THEN /\ out' = Append(out, "Retrying")
         /\ attempt' = attempt + 1
         /\ pc' = "read_loop"
         /\ exc' = exc
    ELSE /\ Crash(e)
         /\ UNCHANGED << out, attempt >>

\* lines 52-54, 88-90: an attempt starts.  On a None handle get_characteristic
\* raises AttributeError inside the try, before any read is issued.
ReadIssue ==
    /\ pc = "read_loop"
    /\ ReadLoopRuns(attempt)
    /\ IF ServiceOf(op) = "None"
       THEN /\ ReadException("AttributeError")
            /\ UNCHANGED << reads, target, pending >>
       ELSE /\ pc' = "read_wait"
            /\ reads' = reads + 1
            /\ target' = [service |-> ServiceOf(op), char |-> CharacteristicOf(op)]
            /\ pending' = Issue(pending, "read")
            /\ UNCHANGED << exc, out, attempt >>
    /\ UNCHANGED << printed, scanVars, mainVars, connVars, linkUp, disconnectCalled,
                    connected, op, readLog, writes, lastBytes, route, request, payload >>

\* lines 54-59, 90-92: the read returns bytes (only on a link that is up); they
\* are decoded, the verdict or the status is printed, break
ReadReturn ==
    /\ pc = "read_wait"
    /\ linkUp
    /\ \E bytes \in ReadValues :
         LET decoded == Utf8Decode(bytes)
         IN  /\ lastBytes' = bytes
             /\ IF decoded.ok
                THEN /\ readLog' = Append(readLog, "ok")
                     /\ out' = Append(out,
                                  IF op = "TestAPIKey"
                                  THEN IF IsApiSuccess(decoded.text) THEN "ApiOk" ELSE "ApiFail"
                                  ELSE "Status")
                     /\ pc' = "menu"
                     /\ UNCHANGED << exc, attempt >>
                ELSE /\ readLog' = Append(readLog, "decode_error")
                     /\ ReadException("UnicodeDecodeError")
    /\ pending' = Complete(pending, "read")
    /\ UNCHANGED << printed, scanVars, mainVars, connVars, linkUp, disconnectCalled,
                    connected, op, reads, writes, route, target, request, payload >>

\* lines 54/90 raise from the transport (link down, or a transient error)
ReadRaise ==
    /\ pc = "read_wait"
    /\ readLog' = Append(readLog, "transport_error")
    /\ ReadException("BleakError")
    /\ pending' = Complete(pending, "read")
    /\ UNCHANGED << printed, scanVars, mainVars, connVars, linkUp, disconnectCalled,
                    connected, op, reads, writes, lastBytes, route, target, request,
                    payload >>

\* range(2) is exhausted: the function returns None to the menu, silently
ReadLoopEnd ==
    /\ pc = "read_loop"
    /\ ~ReadLoopRuns(attempt)
    /\ pc' = "menu"
    /\ UNCHANGED << exc, printed, scanVars, mainVars, pending, connVars, linkUp,
                    disconnectCalled, connected, opVars >>

Next ==
    \/ ScanIssue
    \/ DiscoverReturn
    \/ DiscoverRaise
    \/ ScanReturn
    \/ SelectDevice
    \/ ConnectIssue
    \/ ConnectOk
    \/ ConnectFail
    \/ ConnectExhausted
    \/ ResolveServices
    \/ MainCheck
    \/ LinkDrop
    \/ MenuChoice
    \/ DisconnectReturn
    \/ WifiChoice
    \/ ApiChoice
    \/ WriteIssue
    \/ WriteOk
    \/ WriteRaise
    \/ ReadIssue
    \/ ReadReturn
    \/ ReadRaise
    \/ ReadLoopEnd

Spec == Init /\ [][Next]_vars

----------------------------------------------------------------------------
(* Properties *)

\* the devices of a discover result that carry a name, in the reported order
NamedOf(devs) == SelectSeq(devs, LAMBDA d : d.name # None)

AllFailed(log) == \A k \in 1..Len(log) : log[k] = "fail"

\* C1: in scanDevices, once a scan attempt has yielded a named device no
\* further discover call is issued (a discover is issued only while every
\* attempt so far was empty), and what scanDevices returns after a find is
\* exactly the named devices of that last attempt, in the order the transport
\* reported them.
C1_ScanStopsAtFirstFind ==
    [][ /\ (discoverCalls' # discoverCalls =>
               /\ discoverCalls' = discoverCalls + 1
               /\ NamedOf(discovered) = << >>
               /\ validDevices = << >>)
        /\ (pc = "scan_loop" /\ pc' = "select" => devices' = NamedOf(discovered))
        /\ (pc' = "select" => devices' # << >>)
      ]_vars

\* C1 witness: the second scan found two different devices, and they were
\* returned in the order reported
C1_Witness ==
    /\ pc = "select"
    /\ discoverCalls = 2
    /\ Len(devices) = 2
    /\ devices[1].name = Some("DeviceA")
    /\ devices[2].name = Some("")

\* C2: three scan attempts without a named device end scanDevices with the
\* empty list after exactly three discover calls, never a fourth; main then
\* reports that no devices were found and ends: no device is selected and no
\* connection is attempted.
C2_ThreeEmptyScansFail ==
    [][ /\ discoverCalls' <= 3
        /\ (pc = "scan_loop" /\ discoverCalls = 3 /\ NamedOf(discovered) = << >> =>
               /\ pc' = "done"
               /\ "NoDevicesFound" \in printed'
               /\ devices' = << >>)
        /\ ("NoDevicesFound" \in printed' =>
               /\ pc' = "done"
               /\ exc' = "none"
               /\ discoverCalls' = 3
               /\ selectedDevice' = -1
               /\ connectCalls' = 0
               /\ ~linkUp')
      ]_vars

\* C2 witness: the failure outcome after three discover calls
C2_Witness ==
    /\ pc = "done"
    /\ "NoDevicesFound" \in printed
    /\ discoverCalls = 3

\* C3: when all three connection attempts fail, connectToClient does not
\* raise: it returns a client that is not connected with both service handles
\* None, and main prints "Unable to connect to device." without entering the
\* device menu.
C3_FailedConnectReturnsSession ==
    (Len(connectLog) = 3 /\ AllFailed(connectLog) /\ pc \notin { "connect_loop", "resolve" }) =>
        /\ exc = "none"
        /\ apiService = "None"
        /\ wifiService = "None"
        /\ ~linkUp
        /\ ~connected
        /\ \/ pc = "main_check"
           \/ pc = "done" /\ "UnableToConnect" \in printed

\* C4: one call of connectToClient issues at most three connect calls, each
\* only after every earlier one has failed, and none after one that succeeded.
C4_ConnectAttemptsSequential ==
    /\ connectCalls <= 3
    /\ (pc = "connect_wait" =>
           connectCalls = Len(connectLog) + 1 /\ AllFailed(connectLog))
    /\ (pc # "connect_wait" => connectCalls = Len(connectLog))
    /\ \A k \in 1..Len(connectLog) :
           connectLog[k] = "ok" => k = Len(connectLog) /\ pc # "connect_wait"

\* C4 witness: the third attempt succeeded after two failures
C4_Witness ==
    /\ connectCalls = 3
    /\ connectLog = << "fail", "fail", "ok" >>
    /\ pc = "menu"

\* C5: a characteristic read or write is issued only while the connection is
\* up: after a connect attempt has succeeded, before disconnect has been
\* called, and not once the transport has dropped the link.
C5_IoOnlyWhileConnected ==
    [][ (reads' = reads + 1 \/ writes' = writes + 1) =>
            /\ linkUp
            /\ ServicesDiscovered(connectLog)
            /\ ~disconnectCalled
      ]_vars

Results == { "ApiOk", "ApiFail", "Status" }
ReadFailures == { "transport_error", "decode_error" }

\* C6: one call of testAPIKey / getConnectionStatus issues at most two reads;
\* the second read is issued exactly when the first one raised (from the
\* transport or from decoding); no read follows one that succeeded; at most
\* one verdict or status is printed.
C6_ReadRetriesOnce ==
    op \in ReadOps =>
        /\ reads <= 2
        /\ reads = Len(readLog) + (IF pc = "read_wait" THEN 1 ELSE 0)
        /\ (reads = 2 => readLog[1] \in ReadFailures)
        /\ (readLog # << >> /\ readLog[1] \in ReadFailures /\ pc \notin { "read_loop", "crashed" }
               => reads = 2)
        /\ \A k \in 1..Len(readLog) :
               readLog[k] = "ok" => k = Len(readLog) /\ pc \notin { "read_loop", "read_wait" }
        /\ Len(SelectSeq(out, LAMBDA x : x \in Results)) <= 1
        /\ ((\E k \in 1..Len(out) : out[k] \in Results) =>
               readLog # << >> /\ readLog[Len(readLog)] = "ok")

\* C6 witness: the first read could not be decoded, the second one succeeded
C6_Witness ==
    /\ op = "TestAPIKey"
    /\ pc = "menu"
    /\ readLog = << "decode_error", "ok" >>
    /\ reads = 2

\* C7 (as stated): a read operation whose two attempts both fail produces no
\* output at all and raises nothing.
C7_SilentDoubleFailure ==
    (op \in ReadOps /\ attempt = ReadAttempts) => out = << >> /\ exc = "none"

\* C7 (amended): a read operation whose two attempts both fail prints no
\* verdict and no status and raises nothing: it returns to the device menu,
\* which keeps looping; what it does print is the "An error occurred reading
\* characteristic ..., retrying..." diagnostic, once for each failed attempt.
C7_DoubleFailureOnlyDiagnostics ==
    [][ /\ (pc \in { "read_loop", "read_wait" } =>
               /\ pc' \in { "read_loop", "read_wait", "menu" }
               /\ exc' = "none"
               /\ connected')
        /\ (op' \in ReadOps /\ attempt' = ReadAttempts =>
               /\ out' = << "Retrying", "Retrying" >>
               /\ \A k \in 1..Len(readLog') : readLog'[k] \in ReadFailures)
        /\ (pc = "read_loop" /\ attempt = ReadAttempts =>
               pc' \in { "read_loop", "menu" } /\ out' = out /\ reads' = reads)
      ]_vars

\* C7 witness: back in the menu after a transport error and a decode error
C7_Witness ==
    /\ op = "GetConnectionStatus"
    /\ pc = "menu"
    /\ connected
    /\ attempt = ReadAttempts
    /\ readLog = << "transport_error", "decode_error" >>

\* C8 (as stated): every call of a write operation issues exactly one
\* transport write, never a second; a failed write raises at once and prints
\* no "Command sent!"; no read follows the write.
C8_ExactlyOneWrite ==
    (op \in WriteOps /\ pc # "write_op") =>
        /\ writes = 1
        /\ reads = 0
        /\ (exc = "BleakError" => pc = "crashed" /\ out = << >>)

\* C8 (amended): every call of a write operation issues at most one transport
\* write and never retries it: exactly one once the prompts are answered with
\* a port that is an integer and the characteristic lookup on the operation's
\* service handle succeeds, and none when int() on the port or the lookup on
\* a None handle raises first.  A failed write raises
\* at once out of the operation (and the program) without "Command sent!";
\* no read follows a write.
C8_AtMostOneWrite ==
    op \in WriteOps =>
        /\ writes <= 1
        /\ reads = 0
        /\ (pc = "write_wait" => writes = 1)
        /\ (pc # "write_op" /\ writes = 0 =>
               /\ pc = "crashed"
               /\ \/ exc = "AttributeError" /\ ServiceOf(op) = "None"
                  \/ exc = "ValueError" /\ op = "SetAPIKey")
        /\ (pc \notin { "write_op", "write_wait" } /\ ServiceOf(op) # "None"
                /\ exc \in { "none", "BleakError" } => writes = 1)
        /\ (exc = "BleakError" => pc = "crashed" /\ writes = 1 /\ out = << >>)
        /\ (out # << >> => out = << "CommandSent" >> /\ writes = 1 /\ PrintsCommandSent(op))

\* C8 witness: the one write of connectToWiFi failed and ended the program
C8_Witness ==
    /\ op = "SetWiFi"
    /\ pc = "crashed"
    /\ exc = "BleakError"
    /\ writes = 1
    /\ out = << >>

\* C9: testAPIKey prints the success verdict exactly when the bytes read
\* decode to "True" (84 114 117 101); any other decodable value gives the
\* failure verdict, at once, without a diagnostic and without another read.
C9_SuccessIffTrue ==
    (op = "TestAPIKey" /\ readLog # << >> /\ readLog[Len(readLog)] = "ok") =>
        /\ Len(out) = Len(readLog)
        /\ reads = Len(readLog)
        /\ out[Len(out)] \in { "ApiOk", "ApiFail" }
        /\ (out[Len(out)] = "ApiOk" <=> lastBytes = << 84, 114, 117, 101 >>)
        /\ \A k \in 1..(Len(out) - 1) : out[k] = "Retrying"

\* C9 witness: the value "true" was read at the first attempt and reported as
\* a failure
C9_Witness ==
    /\ op = "TestAPIKey"
    /\ lastBytes = << 116, 114, 117, 101 >>
    /\ readLog = << "ok" >>
    /\ out = << "ApiFail" >>

NonEmptyName(d) == d.name # None /\ d.name # Some("")

\* C10 (as stated): every device scanDevices collects and returns has a
\* non-empty name, and every device of the finding attempt that has a
\* non-empty name is collected.
C10_ReturnedNamesNonEmpty ==
    /\ \A k \in 1..Len(validDevices) : NonEmptyName(validDevices[k])
    /\ \A k \in 1..Len(devices) : NonEmptyName(devices[k])
    /\ (pc = "scan_loop" =>
           \A k \in 1..Len(discovered) :
               NonEmptyName(discovered[k]) =>
                   \E j \in 1..Len(validDevices) : validDevices[j] = discovered[k])

\* C10 (amended): every device scanDevices collects and returns has a name
\* (device.name is not None), and every device of the finding attempt that has
\* a name is collected; a device whose name is the empty string has a name
\* and is included.
C10_ReturnedDevicesHaveName ==
    [][ /\ \A k \in 1..Len(validDevices') : validDevices'[k].name # None
        /\ \A k \in 1..Len(devices') : devices'[k].name # None
        /\ (pc' = "scan_loop" /\ discoverCalls' > 0 =>
               \A k \in 1..Len(discovered') :
                   discovered'[k].name # None =>
                       \E j \in 1..Len(validDevices') : validDevices'[j] = discovered'[k])
        /\ (pc = "scan_loop" /\ pc' \in { "select", "done" } => devices' = validDevices)
      ]_vars

\* C10 witness: a scan that reported a device without a name and one whose name
\* is the empty string returned the latter alone
C10_Witness ==
    /\ pc = "select"
    /\ devices = << BLEDevice(Some(""), "addr1") >>

\* C11: an error the transport raises during scan (from discover) or during
\* connect (from client.connect or from the service lookups after it) is
\* caught inside scanDevices / connectToClient: no step taken while a discover
\* or a connect is awaited, or while the services are looked up, ends the
\* program with an exception.
C11_ScanConnectErrorsCaught ==
    [][ (pc \in { "discover_wait", "connect_wait", "resolve" }) =>
            (pc' # "crashed" /\ exc' = "none")
      ]_vars

ApiHandle  == "abc0"
WiFiHandle == "31415924535897932384626433832790"

\* C12: every read or write an operation issues goes to the one characteristic
\* of that operation, looked up on the handle of its own service: abc1 on the
\* API service for SetAPIKey (a write) and TestAPIKey (a read); ...791 (read),
\* ...792 (write) and ...794 (write) on the Wi-Fi service for
\* GetConnectionStatus, SetWiFi and UnsetWiFi; and each menu path leads to the
\* operation it names.
C12_FixedCharacteristics ==
    /\ (target # NoTarget =>
          /\ target.service # "None"
          /\ \/ /\ op = "SetAPIKey" /\ route = << 2, 1 >> /\ writes = 1 /\ reads = 0
                /\ target = [service |-> ApiHandle, char |-> "abc1"]
                /\ apiService = ApiHandle
             \/ /\ op = "TestAPIKey" /\ route = << 2, 2 >> /\ writes = 0 /\ reads > 0
                /\ target = [service |-> ApiHandle, char |-> "abc1"]
                /\ apiService = ApiHandle
             \/ /\ op = "GetConnectionStatus" /\ route = << 1, 2 >> /\ writes = 0 /\ reads > 0
                /\ target = [service |-> WiFiHandle,
                             char |-> "31415924535897932384626433832791"]
                /\ wifiService = WiFiHandle
             \/ /\ op = "SetWiFi" /\ route = << 1, 1 >> /\ writes = 1 /\ reads = 0
                /\ target = [service |-> WiFiHandle,
                             char |-> "31415924535897932384626433832792"]
                /\ wifiService = WiFiHandle
             \/ /\ op = "UnsetWiFi" /\ route = << 1, 3 >> /\ writes = 1 /\ reads = 0
                /\ target = [service |-> WiFiHandle,
                             char |-> "31415924535897932384626433832794"]
                /\ wifiService = WiFiHandle)
    /\ (reads > 0 \/ writes > 0 => target # NoTarget)

\* C12 witness: connectToWiFi has its write outstanding on ...792 while the
\* peripheral has no API service
C12_Witness ==
    /\ op = "SetWiFi"
    /\ pc = "write_wait"
    /\ target.char = "31415924535897932384626433832792"
    /\ apiService = "None"

(* a JSON reader for what the peripheral receives: one flat object whose
   values are strings or integers *)

JsonBad == [ok |-> FALSE, s |-> << >>, n |-> 0, next |-> 0]

HexVal(c) ==
    CASE c >= 48 /\ c <= 57  -> c - 48
      [] c >= 97 /\ c <= 102 -> c - 87
      [] c >= 65 /\ c <= 70  -> c - 55
      [] OTHER -> 0 - 1

\* the value of the four hexadecimal digits at p .. p+3, or -1
Hex4At(t, p) ==
    IF p + 3 > Len(t) \/ \E k \in 0..3 : HexVal(t[p + k]) < 0 THEN 0 - 1
    ELSE HexVal(t[p]) * 4096 + HexVal(t[p + 1]) * 256 + HexVal(t[p + 2]) * 16
         + HexVal(t[p + 3])

RECURSIVE SkipBlanks(_, _)
SkipBlanks(t, p) ==
    IF p <= Len(t) /\ t[p] \in { 32, 9, 10, 13 } THEN SkipBlanks(t, p + 1) ELSE p

\* the characters of a string from p on, up to its closing quote
RECURSIVE ReadStringBody(_, _, _)
ReadStringBody(t, p, acc) ==
    IF p > Len(t) THEN JsonBad
    ELSE IF t[p] = 34 THEN [ok |-> TRUE, s |-> acc, n |-> 0, next |-> p + 1]
    ELSE IF t[p] < 32 THEN JsonBad
    ELSE IF t[p] # 92 THEN ReadStringBody(t, p + 1, Append(acc, t[p]))
    ELSE IF p + 1 > Len(t) THEN JsonBad
    ELSE LET e == t[p + 1]
         IN  IF e = 34  THEN ReadStringBody(t, p + 2, Append(acc, 34))
             ELSE IF e = 92  THEN ReadStringBody(t, p + 2, Append(acc, 92))
             ELSE IF e = 47  THEN ReadStringBody(t, p + 2, Append(acc, 47))
             ELSE IF e = 98  THEN ReadStringBody(t, p + 2, Append(acc, 8))
             ELSE IF e = 102 THEN ReadStringBody(t, p + 2, Append(acc, 12))
             ELSE IF e = 110 THEN ReadStringBody(t, p + 2, Append(acc, 10))
             ELSE IF e = 114 THEN ReadStringBody(t, p + 2, Append(acc, 13))
             ELSE IF e = 116 THEN ReadStringBody(t, p + 2, Append(acc, 9))
             ELSE IF e # 117 THEN JsonBad
             ELSE LET hi == Hex4At(t, p + 2)
                      lo == IF p + 7 <= Len(t) /\ t[p + 6] = 92 /\ t[p + 7] = 117
                            THEN Hex4At(t, p + 8) ELSE 0 - 1
                  IN  IF hi < 0 THEN JsonBad
                      ELSE IF hi >= 55296 /\ hi <= 56319 /\ lo >= 56320 /\ lo <= 57343
                      THEN ReadStringBody(t, p + 12,
                               Append(acc, 65536 + (hi - 55296) * 1024 + (lo - 56320)))
                      ELSE ReadStringBody(t, p + 6, Append(acc, hi))

ReadString(t, p) ==
    IF p <= Len(t) /\ t[p] = 34 THEN ReadStringBody(t, p + 1, << >>) ELSE JsonBad

RECURSIVE ReadDigits(_, _, _)
ReadDigits(t, p, acc) ==
    IF p <= Len(t) /\ t[p] >= 48 /\ t[p] <= 57
    THEN ReadDigits(t, p + 1, 10 * acc + (t[p] - 48))
    ELSE [ok |-> TRUE, s |-> << >>, n |-> acc, next |-> p]

ReadNumber(t, p) ==
    LET neg   == p <= Len(t) /\ t[p] = 45
        start == IF neg THEN p + 1 ELSE p
        d     == ReadDigits(t, start, 0)
    IN  IF d.next = start THEN JsonBad
        ELSE IF neg THEN [d EXCEPT !.n = 0 - d.n] ELSE d

\* the items of the object from p on, up to its closing brace
RECURSIVE ReadItems(_, _, _)
ReadItems(t, p, acc) ==
    LET k     == ReadString(t, SkipBlanks(t, p))
        colon == SkipBlanks(t, k.next)
        vpos  == SkipBlanks(t, colon + 1)
        isStr == vpos <= Len(t) /\ t[vpos] = 34
        v     == IF isStr THEN ReadString(t, vpos) ELSE ReadNumber(t, vpos)
        after == SkipBlanks(t, v.next)
        item  == [key |-> k.s,
                  val |-> [kind |-> IF isStr THEN "str" ELSE "int", s |-> v.s, n |-> v.n]]
    IN  IF ~k.ok \/ colon > Len(t) \/ t[colon] # 58 THEN [ok |-> FALSE, items |-> << >>]
        ELSE IF ~v.ok \/ after > Len(t) THEN [ok |-> FALSE, items |-> << >>]
        ELSE IF t[after] = 125
        THEN [ok |-> SkipBlanks(t, after + 1) > Len(t), items |-> Append(acc, item)]
        ELSE IF t[after] = 44 THEN ReadItems(t, after + 1, Append(acc, item))
        ELSE [ok |-> FALSE, items |-> << >>]

\* the object a byte sequence denotes, its items in the order they are written
\* (bytes below 128 are their own UTF-8 decoding)
JsonLoads(bytes) ==
    LET u     == IF \A k \in 1..Len(bytes) : bytes[k] < 128
                 THEN [ok |-> TRUE, text |-> bytes]
                 ELSE Utf8Decode(bytes)
        t     == u.text
        open  == SkipBlanks(t, 1)
        first == SkipBlanks(t, open + 1)
    IN  IF ~u.ok \/ open > Len(t) \/ t[open] # 123 THEN [ok |-> FALSE, items |-> << >>]
        ELSE IF first <= Len(t) /\ t[first] = 125
        THEN [ok |-> SkipBlanks(t, first + 1) > Len(t), items |-> << >>]
        ELSE ReadItems(t, open + 1, << >>)

KeysOf(items) == [k \in 1..Len(items) |-> items[k].key]
KindsOf(items) == [k \in 1..Len(items) |-> items[k].val.kind]

\* the request SetAPIKey{apiKey: "k", endpoint: "e", port: 8080} and the bytes
\* of {"apiKey": "k", "endpoint": "e", "port": 8080}
RoundTripRequest ==
    << [key |-> << 97, 112, 105, 75, 101, 121 >>,
        val |-> [kind |-> "str", s |-> << 107 >>, n |-> 0]],
       [key |-> << 101, 110, 100, 112, 111, 105, 110, 116 >>,
        val |-> [kind |-> "str", s |-> << 101 >>, n |-> 0]],
       [key |-> << 112, 111, 114, 116 >>,
        val |-> [kind |-> "int", s |-> << >>, n |-> 8080]] >>
RoundTripBytes ==
    << 123, 34, 97, 112, 105, 75, 101, 121, 34, 58, 32, 34, 107, 34, 44, 32, 34, 101,
       110, 100, 112, 111, 105, 110, 116, 34, 58, 32, 34, 101, 34, 44, 32, 34, 112, 111,
       114, 116, 34, 58, 32, 56, 48, 56, 48, 125 >>

\* C13: the bytes of an outstanding write are a JSON object that reads back as
\* the request of the operation, item for item: apiKey, endpoint (strings) and
\* port (an integer) for SetAPIKey, ssid and password for SetWiFi, ssid for
\* UnsetWiFi, with the values the user typed; and the request
\* SetAPIKey{"k", "e", 8080} is sent as {"apiKey": "k", "endpoint": "e",
\* "port": 8080}.
C13_PayloadIsRequestJson ==
    pc = "write_wait" =>
        LET d == JsonLoads(payload)
        IN  /\ d.ok
            /\ d.items = request
            /\ \A k \in 1..Len(d.items) :
                  /\ d.items[k].val.kind = "str" => d.items[k].val.s \in TextInputs
                  /\ d.items[k].val.kind = "int" => d.items[k].val.n \in { 8080, 0 - 1, 7 }
            /\ CASE op = "SetAPIKey" ->
                      /\ KeysOf(d.items) = << ApiKeyKey, EndpointKey, PortKey >>
                      /\ KindsOf(d.items) = << "str", "str", "int" >>
                 [] op = "SetWiFi" ->
                      /\ KeysOf(d.items) = << SsidKey, PasswordKey >>
                      /\ KindsOf(d.items) = << "str", "str" >>
                 [] op = "UnsetWiFi" ->
                      /\ KeysOf(d.items) = << SsidKey >>
                      /\ KindsOf(d.items) = << "str" >>
                 [] OTHER -> FALSE
            /\ (request = RoundTripRequest <=> payload = RoundTripBytes)

\* C13 witness: the write of SetAPIKey{"k", "e", 8080} is outstanding
C13_Witness ==
    /\ pc = "write_wait"
    /\ op = "SetAPIKey"
    /\ payload = RoundTripBytes
    /\ JsonLoads(payload).items = RoundTripRequest

\* another outstanding write carries the text with the quote, the backslash,
\* the tab and the two characters outside ASCII, and reads back as typed
C13_EscapedTextSent ==
    /\ pc = "write_wait"
    /\ op = "UnsetWiFi"
    /\ request[1].val.s = << 34, 92, 9, 233, 128512 >>
    /\ payload = << 123, 34, 115, 115, 105, 100, 34, 58, 32, 34, 92, 34, 92, 92, 92,
                    116, 92, 117, 48, 48, 101, 57, 92, 117, 100, 56, 51, 100, 92, 117,
                    100, 101, 48, 48, 34, 125 >>

\* connectToClient has used up its attempts and none succeeded
ConnectFailed == Len(connectLog) = 3 /\ AllFailed(connectLog)

\* C14: the device menu is entered only after a connect call succeeded (the
\* last one issued) and both services were looked up; a connect call is issued
\* only while every earlier one failed and fewer than three were made; once
\* three attempts failed no connect call follows and the device menu is never
\* entered.
C14_ConnectionStateMachine ==
    [][ /\ (pc' \in MenuPhase \/ connected') =>
              /\ connectLog' # << >>
              /\ connectLog'[Len(connectLog')] = "ok"
              /\ Len(connectLog') <= 3
              /\ apiService' # "unset"
              /\ wifiService' # "unset"
        /\ (connectCalls' # connectCalls) =>
              /\ connectCalls' = connectCalls + 1
              /\ AllFailed(connectLog)
              /\ Len(connectLog) = connectCalls
              /\ connectCalls < 3
              /\ apiService = "unset" /\ wifiService = "unset"
        /\ ConnectFailed =>
              /\ connectLog' = connectLog
              /\ connectCalls' = connectCalls
              /\ pc' \notin MenuPhase
              /\ ~connected'
      ]_vars

\* C14 witness: three attempts failed, the lookups returned, and main ended
\* with its report
C14_Witness ==
    /\ ConnectFailed
    /\ connectCalls = 3
    /\ pc = "done"
    /\ "UnableToConnect" \in printed
    /\ ~connected

\* the device menu entered after two failed attempts and a successful third
C14_ConnectedAfterRetry ==
    /\ pc = "menu"
    /\ connected
    /\ connectLog = << "fail", "fail", "ok" >>
    /\ apiService = "None"

\* the operation under way was handed a null handle
OnNullHandle ==
    \/ op \in { "SetAPIKey", "TestAPIKey" } /\ apiService = "None"
    \/ op \in { "SetWiFi", "GetConnectionStatus", "UnsetWiFi" } /\ wifiService = "None"

\* C15: after a successful connect the two lookups never raise: each yields
\* the service or a null handle, is made once and never again, and the device
\* menu is entered whichever handle is null; an operation handed a null handle
\* issues no read and no write and prints no result: the next step of a write
\* operation ends it with an exception, a read operation prints its diagnostic
\* on each of its attempts.
C15_NullHandleNoTransportIO ==
    [][ /\ (pc = "resolve" /\ ServicesDiscovered(connectLog)) =>
              /\ pc' = "main_check"
              /\ apiService' \in { "None", ApiHandle }
              /\ wifiService' \in { "None", WiFiHandle }
        /\ (pc = "main_check" /\ ServicesDiscovered(connectLog)) =>
              (pc' = "menu" /\ connected')
        /\ (apiService # "unset" => apiService' = apiService)
        /\ (wifiService # "unset" => wifiService' = wifiService)
        /\ OnNullHandle' =>
              /\ reads' = 0 /\ writes' = 0
              /\ target' = NoTarget
              /\ pc' \notin { "read_wait", "write_wait" }
              /\ \A k \in 1..Len(pending') : pending'[k] \notin { "read", "write" }
              /\ \A k \in 1..Len(out') : out'[k] = "Retrying"
        /\ (OnNullHandle /\ pc = "write_op" /\ pc' # "write_op") =>
              (pc' = "crashed" /\ exc' \in { "AttributeError", "ValueError" })
        /\ (OnNullHandle /\ pc = "read_loop") =>
              /\ pc' \in { "read_loop", "menu" }
              /\ (pc' = "read_loop" /\ attempt' = attempt) \/ (pc' = "menu" /\ attempt = 2)
                 \/ (attempt' = attempt + 1 /\ out' = Append(out, "Retrying"))
      ]_vars

\* C15 witness: the peripheral has the Wi-Fi service and no API service, the
\* device menu was entered, and testAPIKey came back after two attempts that
\* issued no read
C15_Witness ==
    /\ pc = "menu"
    /\ connected
    /\ op = "TestAPIKey"
    /\ apiService = "None"
    /\ wifiService = WiFiHandle
    /\ out = << "Retrying", "Retrying" >>
    /\ reads = 0

\* addAPIKey on a null handle ends with AttributeError and no write
C15_WriteOnNullHandleRaises ==
    /\ pc = "crashed"
    /\ exc = "AttributeError"
    /\ op = "SetAPIKey"
    /\ apiService = "None"
    /\ writes = 0

\* C16: at most one transport call (discover, connect, disconnect, read,
\* write) is outstanding, and it is the one the program is waiting on; while
\* the program is not waiting none is outstanding, so a call is issued only
\* after the one before it returned or raised; at most one client object is
\* ever created.
C16_OneOutstandingOperation ==
    /\ Len(pending) <= 1
    /\ Len(clients) <= 1
    /\ pending = CASE pc = "discover_wait"   -> << "discover" >>
                   [] pc = "connect_wait"    -> << "connect" >>
                   [] pc = "disconnect_wait" -> << "disconnect" >>
                   [] pc = "read_wait"       -> << "read" >>
                   [] pc = "write_wait"      -> << "write" >>
                   [] OTHER -> << >>

\* C16 witness: the second read of an operation is outstanding, alone, after
\* the discover, the connect and the first read have completed
C16_Witness ==
    /\ pending = << "read" >>
    /\ attempt = 1
    /\ reads = 2
    /\ Len(clients) = 1
    /\ connectCalls > 0

\* deviceMenu has been entered
EnteredMenu == connected \/ disconnectCalled

\* C17 (as stated): scanDevices issues at most three discover calls and
\* connectToClient at most three connect calls, and when the program ends
\* without having entered the device menu it ended normally with exactly one
\* of the two reports, "No devices found" or "Unable to connect".
C17_PreMenuEndsInOutcome ==
    /\ discoverCalls <= 3
    /\ connectCalls <= 3
    /\ (pc \in { "done", "crashed" } /\ ~EnteredMenu) =>
          /\ pc = "done"
          /\ exc = "none"
          /\ ("NoDevicesFound" \in printed) # ("UnableToConnect" \in printed)

\* C18 (as stated): when a connect call succeeded and the program has ended,
\* disconnect was called on the client.
C18_DisconnectBeforeEnd ==
    (pc \in { "done", "crashed" } /\ ServicesDiscovered(connectLog)) => disconnectCalled

\* C19 (as stated): "Connected to ..." is printed only when a connect call
\* succeeded, and never together with "Unable to connect to device.".
C19_ConnectedReportOnlyOnSuccess ==
    /\ ("Connected" \in printed) => ServicesDiscovered(connectLog)
    /\ ~("Connected" \in printed /\ "UnableToConnect" \in printed)

\* the number a typed line denotes, for the lines that denote a positive one
TypedNumber ==
    CASE typed = << "1" >> -> 1
      [] typed = << "2" >> -> 2
      [] typed = << " ", "2" >> -> 2
      [] typed = << "3" >> -> 3
      [] typed = << "4" >> -> 4
      [] typed = << "5" >> -> 5
      [] OTHER -> 0

\* C20: the selection prompt is shown only for a non-empty device list; while
\* it is shown, and when no device was found, nothing is selected and no
\* client exists; once the program is past the prompt, the line that was
\* accepted denotes a number from 1 to len(devices), selectDevice returned that
\* number minus one, and the client was created for the device listed at that
\* position.
C20_SelectionWithinList ==
    /\ (pc = "select" => devices # << >>)
    /\ (pc = "select" \/ devices = << >>) =>
          (selectedDevice = 0 - 1 /\ typed = << >> /\ clients = << >>)
    /\ (pc # "select" /\ devices # << >>) =>
          /\ TypedNumber >= 1
          /\ TypedNumber <= Len(devices)
          /\ selectedDevice = TypedNumber - 1
          /\ selectedDevice >= 0
          /\ selectedDevice < Len(devices)
          /\ clients = << devices[TypedNumber].address >>

\* C20 witness: of two devices found the second was selected, by a line with a
\* leading blank, and the connect calls go to its address
C20_Witness ==
    /\ Len(devices) = 2
    /\ devices[1].address # devices[2].address
    /\ typed = << " ", "2" >>
    /\ selectedDevice = 1
    /\ clients = << devices[2].address >>
    /\ connectCalls > 0
====
